---- MODULE Spec2Model ----
(***************************************************************************)
(* Model of the image generator component (ImageGenerator.tsx): the       *)
(* variable extractor, the text substitution of the raster path and of    *)
(* the live preview, the raster render (generateImageCanvas) and the      *)
(* single and batch generation handlers; and of the template editor       *)
(* (TemplateEditor.tsx): the layer handlers, the two layout tools, the    *)
(* previews and saving.                                                    *)
(*                                                                         *)
(* Strings are sequences of one-character strings, so that trim, split    *)
(* and the placeholder braces are computed character by character.        *)
(* A JavaScript handler runs to completion up to its first suspension on  *)
(* an image load; each action is one such run (one macrotask).            *)
(***************************************************************************)
EXTENDS Integers, Sequences, FiniteSets, TLC

VARIABLES
    template,         \* the template prop of the component
    variables,        \* useState: bindings typed in the single-generation form
    batchData,        \* useState: the CSV text of the batch tab
    isGenerating,     \* useState: a generation is running
    generatedImages,  \* useState: the records of the last completed batch
    toast,            \* the last notification raised (toast.success / toast.error)
    download,         \* the last file offered by handleGenerate (a.href, a.download)
    pending,          \* the render promise a handler is suspended on, with its image
    batch,            \* the locals of the last call of handleBatchGenerate
    editor,           \* the TemplateEditor component: its useState values, the
                      \* timer of its auto-save effect, its upserts in flight
    now               \* the clock read by Date.now() and new Date()

vars == <<template, variables, batchData, isGenerating, generatedImages,
          toast, download, pending, batch, editor, now>>

\* what the generator leaves alone
editorVars == <<editor, now>>

\* what the editor leaves alone (the notifications are shared: one Toaster)
generatorVars == <<template, variables, batchData, isGenerating, generatedImages,
                   download, pending, batch>>

----------------------------------------------------------------------------
(* Bounds                                                                  *)

MaxLayers == 3      \* layers per template in the wide template set
MaxRows == 3        \* data lines of a generated CSV text
MaxEditorLayers == 3  \* layers the editor lets a template grow to
MaxClock == 2       \* readings of the clock after the first
MaxUpserts == 2     \* upserts in flight at once
MaxUploads == 2     \* background files being read and decoded at once
MaxExports == 2     \* exports waiting for their background image at once

----------------------------------------------------------------------------
(* Characters and strings                                                  *)

NL == "\n"
SP == " "
COMMA == ","
LBRACE == "{"
RBRACE == "}"

IsWhitespace(c) == c \in {SP, NL}

\* String.prototype.trim
RECURSIVE trimStart(_)
trimStart(s) ==
    IF s = <<>> THEN <<>>
    ELSE IF IsWhitespace(Head(s)) THEN trimStart(Tail(s)) ELSE s

RECURSIVE trimEnd(_)
trimEnd(s) ==
    IF s = <<>> THEN <<>>
    ELSE IF IsWhitespace(s[Len(s)]) THEN trimEnd(SubSeq(s, 1, Len(s) - 1)) ELSE s

trim(s) == trimEnd(trimStart(s))

\* String.prototype.split with a one-character separator
RECURSIVE split(_, _)
split(s, sep) ==
    IF \A i \in 1..Len(s) : s[i] /= sep THEN <<s>>
    ELSE LET i == CHOOSE k \in 1..Len(s) :
                     s[k] = sep /\ \A j \in 1..(k - 1) : s[j] /= sep
         IN <<SubSeq(s, 1, i - 1)>> \o split(SubSeq(s, i + 1, Len(s)), sep)

\* Array.prototype.indexOf, 1-based; 0 when absent
indexOf(arr, x) ==
    IF \E i \in 1..Len(arr) : arr[i] = x
    THEN CHOOSE i \in 1..Len(arr) : arr[i] = x /\ \A j \in 1..(i - 1) : arr[j] /= x
    ELSE 0

includes(arr, x) == \E i \in 1..Len(arr) : arr[i] = x

\* Array.prototype.map(s => s.trim())
mapTrim(arr) == [i \in 1..Len(arr) |-> trim(arr[i])]

\* the template literal `{{${key}}}`
placeholder(key) == <<LBRACE, LBRACE>> \o key \o <<RBRACE, RBRACE>>

\* a Record<string, string>: a function from its own keys to strings
EmptyRecord == [k \in {} |-> <<>>]

\* obj[key] is truthy: the key is present and its value is not the empty string
truthyAt(obj, key) == key \in DOMAIN obj /\ obj[key] /= <<>>

\* { ...obj, [key]: value }
withKey(obj, key, value) ==
    [k \in (DOMAIN obj) \cup {key} |-> IF k = key THEN value ELSE obj[k]]

----------------------------------------------------------------------------
(* Template model                                                          *)

\* A layer's variableName is <<>> when the optional field is absent or empty:
\* the code only ever tests it for truthiness or takes `variableName || text`.
\* The optional styling fields are given the values addTextLayer sets; an
\* absent field behaves like them everywhere it is read (`opacity || 1`,
\* `rotation || 0`, `textShadow?.enabled`, `textStroke?.enabled`).
\* opacity is kept in hundredths (the slider's unit), rotation in degrees.
NoShadow == [enabled |-> FALSE, color |-> "#000000", offsetX |-> 2, offsetY |-> 2,
             blur |-> 4]
NoStroke == [enabled |-> FALSE, color |-> "#000000", width |-> 1]

Layer(id, text, isVariable, variableName, x, y, fontSize) ==
    [id |-> id, text |-> text, isVariable |-> isVariable,
     variableName |-> variableName, x |-> x, y |-> y, fontSize |-> fontSize,
     fontFamily |-> "Inter", color |-> "#000000", fontWeight |-> "normal",
     textAlign |-> "left", textShadow |-> NoShadow, textStroke |-> NoStroke,
     opacity |-> 100, rotation |-> 0]

\* { ...layer, opacity, rotation, textShadow: {...enabled}, textStroke: {...enabled} }
Styled(layer, opacity, rotation, shadow, stroke) ==
    [layer EXCEPT !.opacity = opacity, !.rotation = rotation,
                  !.textShadow.enabled = shadow, !.textStroke.enabled = stroke]

\* image references: the empty string is "no background"
NoImage == ""
GoodImage == "data:image/png;decodable"
BrokenImage == "data:image/png;corrupt"
Images == {NoImage, GoodImage, BrokenImage}

\* two more decodable images, which differ from GoodImage in their size
IconImage == "data:image/png;icon"
WideImage == "data:image/png;wide"

\* whether the browser can decode the referenced image
decodes(src) == src \in {GoodImage, IconImage, WideImage}

\* img.width and img.height of a decoded image
intrinsicSize(src) ==
    CASE src = IconImage -> <<64, 64>>
      [] src = WideImage -> <<1200, 600>>
      [] src = GoodImage -> <<800, 600>>

----------------------------------------------------------------------------
(* Variable Extractor                                                      *)

\* .filter((name, index, arr) => arr.indexOf(name) === index)
RECURSIVE removeDuplicates(_, _)
removeDuplicates(arr, i) ==
    IF i > Len(arr) THEN <<>>
    ELSE (IF indexOf(arr, arr[i]) = i THEN <<arr[i]>> ELSE <<>>)
         \o removeDuplicates(arr, i + 1)

\* .filter(layer => layer.isVariable && layer.variableName)
declaresVariable(layer) == layer.isVariable /\ layer.variableName /= <<>>

\* mutant: no de-duplication
variableNamesKeepDuplicates(t) ==
    LET declared == SelectSeq(t.textLayers, declaresVariable)
    IN [i \in 1..Len(declared) |-> declared[i].variableName]

variableNames(t) ==
    LET declared == SelectSeq(t.textLayers, declaresVariable)
        names == [i \in 1..Len(declared) |-> declared[i].variableName]
    IN removeDuplicates(names, 1)

\* useEffect: every extracted name starts bound to the empty string
initialVariables(t) ==
    [name \in {variableNames(t)[i] : i \in 1..Len(variableNames(t))} |-> <<>>]

----------------------------------------------------------------------------
(* Text substitution: the three copies in the source                       *)

\* mutant: a bound value replaces the text of any layer that names a variable
onloadTextIgnoringFlag(layer, imageVariables) ==
    IF layer.variableName /= <<>> /\ truthyAt(imageVariables, layer.variableName)
    THEN imageVariables[layer.variableName]
    ELSE IF layer.isVariable
    THEN placeholder(IF layer.variableName /= <<>> THEN layer.variableName ELSE layer.text)
    ELSE layer.text

\* generateImageCanvas, inside img.onload
onloadText(layer, imageVariables) ==
    IF layer.isVariable /\ layer.variableName /= <<>>
       /\ truthyAt(imageVariables, layer.variableName)
    THEN imageVariables[layer.variableName]
    ELSE IF layer.isVariable
    THEN placeholder(IF layer.variableName /= <<>> THEN layer.variableName ELSE layer.text)
    ELSE layer.text

\* mutant: the placeholder always shows the literal text
noBackgroundTextPlaceholderOfText(layer, imageVariables) ==
    IF layer.isVariable /\ layer.variableName /= <<>>
       /\ truthyAt(imageVariables, layer.variableName)
    THEN imageVariables[layer.variableName]
    ELSE IF layer.isVariable
    THEN placeholder(layer.text)
    ELSE layer.text

\* generateImageCanvas, the branch without a background image
noBackgroundText(layer, imageVariables) ==
    IF layer.isVariable /\ layer.variableName /= <<>>
       /\ truthyAt(imageVariables, layer.variableName)
    THEN imageVariables[layer.variableName]
    ELSE IF layer.isVariable
    THEN placeholder(IF layer.variableName /= <<>> THEN layer.variableName ELSE layer.text)
    ELSE layer.text

\* renderPreview
displayText(layer, previewVariables) ==
    IF layer.isVariable /\ layer.variableName /= <<>>
       /\ truthyAt(previewVariables, layer.variableName)
    THEN previewVariables[layer.variableName]
    ELSE IF layer.isVariable
    THEN placeholder(IF layer.variableName /= <<>> THEN layer.variableName ELSE layer.text)
    ELSE layer.text

\* layer.opacity || 1, in hundredths: 0 is falsy.  Every layer the editor
\* makes or stores carries an opacity, so the operand is a number.
opacityOrOne(opacity) == IF opacity = 0 THEN 100 ELSE opacity

\* renderPreview(previewVariables): the text shown in each layer's box, and
\* the opacity of the box
renderPreview(t, previewVariables) ==
    [i \in 1..Len(t.textLayers) |->
        [id |-> t.textLayers[i].id,
         left |-> t.textLayers[i].x,
         top |-> t.textLayers[i].y,
         opacity |-> opacityOrOne(t.textLayers[i].opacity),
         text |-> displayText(t.textLayers[i], previewVariables)]]

----------------------------------------------------------------------------
(* Raster Compositor                                                       *)

\* The canvas is what was painted on it; canvas.toDataURL('image/png') is
\* lossless, so the data URL is identified with the painted canvas.
Canvas(t, background, texts) ==
    [width |-> t.width, height |-> t.height, background |-> background,
     texts |-> texts]

\* The state of a fresh 2d context: globalAlpha 1 (in hundredths), no
\* rotation, no shadow.
ContextDefaults == [globalAlpha |-> 100, rotation |-> 0, shadow |-> NoShadow]

\* One layer as generateImageCanvas paints it: ctx.font, ctx.fillStyle and
\* ctx.textAlign are set from the layer, then
\* ctx.fillText(text, layer.x, layer.y + layer.fontSize).  Nothing else of
\* the context is touched, so the text is drawn with the context defaults,
\* and fillText is the only drawing call.
fillText(layer, text) ==
    [text |-> text, x |-> layer.x, y |-> layer.y + layer.fontSize,
     font |-> <<layer.fontWeight, layer.fontSize, layer.fontFamily>>,
     fillStyle |-> layer.color, textAlign |-> layer.textAlign,
     globalAlpha |-> ContextDefaults.globalAlpha,
     rotation |-> ContextDefaults.rotation,
     shadow |-> ContextDefaults.shadow,
     calls |-> <<"fillText">>]

fillOnload(t, imageVariables) ==
    [i \in 1..Len(t.textLayers) |->
        fillText(t.textLayers[i], onloadText(t.textLayers[i], imageVariables))]

fillNoBackground(t, imageVariables) ==
    [i \in 1..Len(t.textLayers) |->
        fillText(t.textLayers[i], noBackgroundText(t.textLayers[i], imageVariables))]

\* What the browser does during one call: getContext may return null, and
\* painting or encoding may throw.
Env == {"ok", "noContext", "throws"}

NoDataUrl == Canvas([width |-> 0, height |-> 0], "", <<>>)

\* generateImageCanvas up to the point where the call returns its promise.
\*   "null"      fulfilled with null (no 2d context)
\*   "fulfilled" fulfilled with a data URL
\*   "rejected"  the promise executor threw
\*   "pending"   img.src was set; settled only by img.onload
generateImageCanvas(t, imageVariables, env) ==
    IF env = "noContext" THEN [state |-> "null", dataUrl |-> NoDataUrl]
    ELSE IF t.backgroundImage /= NoImage
    THEN [state |-> "pending", dataUrl |-> NoDataUrl]
    ELSE IF env = "throws" THEN [state |-> "rejected", dataUrl |-> NoDataUrl]
    ELSE [state |-> "fulfilled",
          dataUrl |-> Canvas(t, NoImage, fillNoBackground(t, imageVariables))]

\* the body of img.onload: draw the image, the layers, and encode
onloadDataUrl(t, imageVariables) ==
    Canvas(t, t.backgroundImage, fillOnload(t, imageVariables))

----------------------------------------------------------------------------
(* Batch Pipeline: parsing and row mapping                                 *)

\* headers.forEach((header, index) => { if (variableNames.includes(header))
\*     rowVariables[header] = values[index] || '' })
RECURSIVE forEachHeader(_, _, _, _, _)
forEachHeader(headers, values, names, index, rowVariables) ==
    IF index > Len(headers) THEN rowVariables
    ELSE forEachHeader(headers, values, names, index + 1,
            IF includes(names, headers[index])
            THEN withKey(rowVariables, headers[index],
                         IF index <= Len(values) THEN values[index] ELSE <<>>)
            ELSE rowVariables)

\* the bindings of one data line
rowVariablesOf(t, headers, row) ==
    forEachHeader(headers, mapTrim(split(row, COMMA)), variableNames(t), 1, EmptyRecord)

\* lines, headers and dataRows of handleBatchGenerate
linesOf(text) == split(trim(text), NL)
headersOf(text) == mapTrim(split(linesOf(text)[1], COMMA))
\* mutant: the header line is not removed
dataRowsOfKeepingHeader(text) == linesOf(text)

dataRowsOf(text) == Tail(linesOf(text))

\* mutant: a new record is put in front of the list
pushFront(images, record) == <<record>> \o images

\* newGeneratedImages.push(record)
push(images, record) == Append(images, record)

\* One record of the batch.  The id `batch-${Date.now()}-${Math.random()}`
\* is an opaque token that is unique within the run; it is modelled by the
\* position of the data line the record was rendered from.
ImageRecord(row, dataUrl, rowVariables) ==
    [id |-> row, dataUrl |-> dataUrl, variables |-> rowVariables]

\* The for-loop of handleBatchGenerate from data line `index` on, run until
\* it ends or suspends on a pending render: the set of its possible results,
\* one for every way the browser may behave (Env) during the renders made.
\* outcomes records how the render of each data line ended.
RECURSIVE batchLoop(_, _, _, _, _, _)
batchLoop(t, headers, dataRows, index, images, outcomes) ==
    IF index > Len(dataRows)
    THEN {[status |-> "completed", index |-> index, images |-> images,
           outcomes |-> outcomes, rowVariables |-> EmptyRecord]}
    ELSE LET rowVariables == rowVariablesOf(t, headers, dataRows[index])
             after(env) ==
                LET r == generateImageCanvas(t, rowVariables, env)
                IN CASE r.state = "null" ->
                           batchLoop(t, headers, dataRows, index + 1, images,
                                     Append(outcomes, "null"))
                     [] r.state = "fulfilled" ->
                           batchLoop(t, headers, dataRows, index + 1,
                                     push(images, ImageRecord(index, r.dataUrl, rowVariables)),
                                     Append(outcomes, "fulfilled"))
                     [] r.state = "rejected" ->
                           {[status |-> "failed", index |-> index, images |-> images,
                             outcomes |-> Append(outcomes, "rejected"),
                             rowVariables |-> rowVariables]}
                     [] OTHER ->
                           {[status |-> "awaiting", index |-> index, images |-> images,
                             outcomes |-> outcomes, rowVariables |-> rowVariables]}
         IN UNION {after(env) : env \in Env}

----------------------------------------------------------------------------
(* Notifications                                                           *)

NoToast == [type |-> "none", message |-> "", count |-> 0]
ToastSingleSuccess ==
    [type |-> "success", message |-> "Image generated and downloaded!", count |-> 0]
ToastSingleError ==
    [type |-> "error", message |-> "Failed to generate image", count |-> 0]
ToastEnterBatchData ==
    [type |-> "error", message |-> "Please enter batch data", count |-> 0]
\* toast.success(`Generated ${newGeneratedImages.length} images!`)
ToastBatchSuccess(n) ==
    [type |-> "success", message |-> "Generated N images!", count |-> n]
ToastBatchError ==
    [type |-> "error", message |-> "Failed to generate batch images", count |-> 0]

----------------------------------------------------------------------------
(* Component state                                                         *)

NoPending == [handler |-> "none", img |-> "none", imageVariables |-> EmptyRecord]

\* batch.text is the batchData the running handler closed over; headers and
\* dataRows are parsed from it once.
\* batch.status: "none" before the first run, "awaiting" while the handler is
\* suspended on a render, "completed" after setGeneratedImages, "failed"
\* after the catch block.  The locals of a run stay readable after it ended.
NoBatch == [status |-> "none", text |-> <<>>, headers |-> <<>>, dataRows |-> <<>>,
            index |-> 0, newGeneratedImages |-> <<>>, outcomes |-> <<>>]

\* the state after the component is mounted with template t and its
\* effects have run
Mounted(t) ==
    /\ template = t
    /\ variables = initialVariables(t)
    /\ batchData = <<>>
    /\ isGenerating = FALSE
    /\ generatedImages = <<>>
    /\ toast = NoToast
    /\ download = <<>>
    /\ pending = NoPending
    /\ batch = NoBatch

----------------------------------------------------------------------------
(* Handlers                                                                *)

\* onChange of a variable input: only extracted names have an input
handleVariableChange(name, value) ==
    /\ includes(variableNames(template), name)
    /\ variables' = withKey(variables, name, value)
    /\ UNCHANGED <<template, batchData, isGenerating, generatedImages, toast,
                   download, pending, batch, editorVars>>

\* onChange of the CSV textarea
setBatchData(text) ==
    /\ batchData' = text
    /\ UNCHANGED <<template, variables, isGenerating, generatedImages, toast,
                   download, pending, batch, editorVars>>

\* the continuation of handleGenerate once the render promise is settled
singleSettled(r) ==
    /\ CASE r.state = "fulfilled" ->
                /\ download' = <<[href |-> r.dataUrl, name |-> template.name]>>
                /\ toast' = ToastSingleSuccess
         [] r.state = "rejected" ->
                /\ toast' = ToastSingleError
                /\ UNCHANGED download
         [] OTHER ->
                UNCHANGED <<download, toast>>
    /\ isGenerating' = FALSE
    /\ pending' = NoPending

\* mutant: the button is not disabled while a generation is running
handleGenerateWhileGenerating(env) ==
    /\ LET r == generateImageCanvas(template, variables, env)
       IN IF r.state = "pending"
          THEN /\ isGenerating' = TRUE
               /\ pending' = [handler |-> "single", img |-> "loading",
                              imageVariables |-> variables]
               /\ UNCHANGED <<download, toast>>
          ELSE singleSettled(r)
    /\ UNCHANGED <<template, variables, batchData, generatedImages, batch, editorVars>>

\* click on "Generate & Download" (disabled while isGenerating)
handleGenerate(env) ==
    /\ ~isGenerating
    /\ LET r == generateImageCanvas(template, variables, env)
       IN IF r.state = "pending"
          THEN /\ isGenerating' = TRUE
               /\ pending' = [handler |-> "single", img |-> "loading",
                              imageVariables |-> variables]
               /\ UNCHANGED <<download, toast>>
          ELSE singleSettled(r)
    /\ UNCHANGED <<template, variables, batchData, generatedImages, batch, editorVars>>

\* handleBatchGenerate from data line `index` on, until it ends or suspends
batchContinue(text, index, images, outcomes) ==
    LET headers == headersOf(text)
        dataRows == dataRowsOf(text)
    IN \E r \in batchLoop(template, headers, dataRows, index, images, outcomes) :
        /\ batch' = [status |-> r.status, text |-> text, headers |-> headers,
                     dataRows |-> dataRows, index |-> r.index,
                     newGeneratedImages |-> r.images, outcomes |-> r.outcomes]
        /\ CASE r.status = "completed" ->
                    /\ generatedImages' = r.images
                    /\ toast' = ToastBatchSuccess(Len(r.images))
                    /\ isGenerating' = FALSE
                    /\ pending' = NoPending
             [] r.status = "failed" ->
                    /\ toast' = ToastBatchError
                    /\ isGenerating' = FALSE
                    /\ pending' = NoPending
                    /\ UNCHANGED generatedImages
             [] OTHER ->
                    /\ isGenerating' = TRUE
                    /\ pending' = [handler |-> "batch", img |-> "loading",
                                   imageVariables |-> r.rowVariables]
                    /\ UNCHANGED <<generatedImages, toast>>

\* click on "Generate Batch" (disabled while isGenerating)
handleBatchGenerate ==
    /\ ~isGenerating
    /\ IF trim(batchData) = <<>>
       THEN /\ toast' = ToastEnterBatchData
            /\ UNCHANGED <<isGenerating, generatedImages, pending, batch>>
       ELSE batchContinue(batchData, 1, <<>>, <<>>)
    /\ UNCHANGED <<template, variables, batchData, download, editorVars>>

\* img.onload of the pending render: the image decoded
imgOnload ==
    /\ pending.img = "loading"
    /\ decodes(template.backgroundImage)
    /\ \E throws \in BOOLEAN :
         IF throws
         THEN \* an exception inside the event handler is not caught by the
              \* promise: resolve is never called
              /\ pending' = [pending EXCEPT !.img = "thrown"]
              /\ batch' = IF pending.handler = "batch"
                          THEN [batch EXCEPT !.outcomes = Append(@, "thrown")]
                          ELSE batch
              /\ UNCHANGED <<isGenerating, generatedImages, toast, download>>
         ELSE LET dataUrl == onloadDataUrl(template, pending.imageVariables)
              IN IF pending.handler = "single"
                 THEN /\ singleSettled([state |-> "fulfilled", dataUrl |-> dataUrl])
                      /\ UNCHANGED <<generatedImages, batch>>
                 ELSE /\ batchContinue(batch.text, batch.index + 1,
                            push(batch.newGeneratedImages,
                                 ImageRecord(batch.index, dataUrl,
                                             pending.imageVariables)),
                            Append(batch.outcomes, "fulfilled"))
                      /\ UNCHANGED download
    /\ UNCHANGED <<template, variables, batchData, editorVars>>

\* the image of the pending render fails to decode: the error event finds
\* no handler (img.onerror is never set), so the promise is never settled
imgError ==
    /\ pending.img = "loading"
    /\ ~decodes(template.backgroundImage)
    /\ pending' = [pending EXCEPT !.img = "error"]
    /\ batch' = IF pending.handler = "batch"
                THEN [batch EXCEPT !.outcomes = Append(@, "error")]
                ELSE batch
    /\ UNCHANGED <<template, variables, batchData, isGenerating, generatedImages,
                   toast, download, editorVars>>

----------------------------------------------------------------------------
(* Inputs                                                                  *)

NameA == <<"a">>
NameB == <<"b">>
NameName == <<"n", "a", "m", "e">>
Ada == <<"A", "d", "a">>
Grace == <<"G", "r", "a", "c", "e">>

\* the layers a template is built from: literal text "a" or "t", variable or
\* not, variableName absent, "a" or "b"
LayerTexts == {NameA, <<"t">>}
LayerNames == {<<>>, NameA, NameB}
LayerChoices ==
    [text : LayerTexts, isVariable : BOOLEAN, variableName : LayerNames]

\* the i-th layer of a template, placed like the layer of the spec's scenario
PlacedLayer(choice, i) ==
    Layer(i, choice.text, choice.isVariable, choice.variableName, 50, 50 * i, 24)

TemplateOf(choices, image) ==
    [name |-> "template", backgroundImage |-> image,
     textLayers |-> [i \in 1..Len(choices) |-> PlacedLayer(choices[i], i)],
     width |-> 800, height |-> 600]

\* every template of at most MaxLayers layers over LayerChoices
WideTemplates ==
    {TemplateOf(choices, image) :
        choices \in UNION {[1..n -> LayerChoices] : n \in 0..MaxLayers},
        image \in Images}

\* the templates the generator is run on: a single variable, with no
\* background, a decodable and a corrupt one; two variables around a static
\* layer that also carries a name; a variable without a name whose text is
\* the name of another variable
OneVariable == <<[text |-> <<"t">>, isVariable |-> TRUE, variableName |-> NameA]>>
TwoVariables ==
    <<[text |-> <<"t">>, isVariable |-> TRUE, variableName |-> NameB],
      [text |-> NameA, isVariable |-> FALSE, variableName |-> NameA],
      [text |-> <<"t">>, isVariable |-> TRUE, variableName |-> NameA]>>
UnnamedVariable ==
    <<[text |-> NameA, isVariable |-> TRUE, variableName |-> <<>>],
      [text |-> <<"t">>, isVariable |-> TRUE, variableName |-> NameA]>>

\* one variable layer, half transparent, turned by 90 degrees, with shadow
\* and outline enabled
StyledTemplate ==
    [name |-> "template", backgroundImage |-> GoodImage,
     textLayers |-> <<Styled(PlacedLayer(OneVariable[1], 1), 50, 90, TRUE, TRUE)>>,
     width |-> 800, height |-> 600]

GeneratorTemplates ==
    {TemplateOf(OneVariable, image) : image \in Images}
    \cup {TemplateOf(TwoVariables, image) : image \in {NoImage, GoodImage}}
    \cup {TemplateOf(UnnamedVariable, NoImage)}
    \cup {StyledTemplate}

\* the template of the spec's scenarios: one variable layer named "name"
ScenarioTemplate ==
    [name |-> "template", backgroundImage |-> NoImage,
     textLayers |-> <<Layer(1, <<"t">>, TRUE, NameName, 50, 50, 24)>>,
     width |-> 800, height |-> 600]

\* CSV texts: a header line followed by n data lines
HeaderLines == {NameA, <<SP, "b", SP, COMMA, "a">>}
\* data lines: one cell; two cells with surrounding blanks; two empty cells
RowLine(i) ==
    CASE i % 3 = 1 -> <<"x">>
      [] i % 3 = 2 -> <<SP, "y", COMMA, "z">>
      [] OTHER -> <<COMMA>>

RECURSIVE CsvText(_, _)
CsvText(header, n) ==
    IF n = 0 THEN header ELSE CsvText(header, n - 1) \o <<NL>> \o RowLine(n)

ScenarioText == NameName \o <<NL>> \o Ada \o <<NL>> \o Grace

\* whitespace only; a header line without data lines; header and data lines
Texts ==
    {<<SP, NL>>, <<"a", NL, SP>>, ScenarioText}
    \cup {CsvText(h, n) : h \in HeaderLines, n \in 1..MaxRows}

\* what the user types into a variable input
Values == {<<>>, <<"v">>}

----------------------------------------------------------------------------
(* Numbers of the editor                                                   *)

\* The layout tools and the preview scale divide, so that the positions of
\* the editor are fractions: a number is kept exactly, as <<numerator,
\* denominator>> in lowest terms with a positive denominator.
RECURSIVE gcd(_, _)
gcd(a, b) == IF b = 0 THEN a ELSE gcd(b, a % b)

abs(n) == IF n < 0 THEN -n ELSE n

Frac(n, d) ==
    LET sign == IF d < 0 THEN -1 ELSE 1
        g == gcd(abs(n), abs(d))
    IN <<(sign * n) \div g, (sign * d) \div g>>

Num(n) == <<n, 1>>

plus(a, b) == Frac(a[1] * b[2] + b[1] * a[2], a[2] * b[2])
times(a, b) == Frac(a[1] * b[1], a[2] * b[2])
over(a, b) == Frac(a[1] * b[2], a[2] * b[1])
lessEq(a, b) == a[1] * b[2] <= b[1] * a[2]

\* Math.min
MathMin(a, b) == IF lessEq(a, b) THEN a ELSE b

\* Math.ceil(n / d) for integers n and d > 0
MathCeil(n, d) == -((-n) \div d)

\* Math.ceil(Math.sqrt(n)) for an integer n >= 0
ceilSqrt(n) == CHOOSE c \in 0..n : c * c >= n /\ (c = 0 \/ (c - 1) * (c - 1) < n)

----------------------------------------------------------------------------
(* Template editor: layers and layout tools                                *)

\* `layer-${Date.now()}`
LayerId(time) == <<"layer", time>>

\* selectedLayerId === null
NoSelection == <<>>

\* the layer addTextLayer creates
newLayer(time) ==
    Layer(LayerId(time), <<"N", "e", "w", " ", "T", "e", "x", "t">>, FALSE, <<>>,
          Num(100), Num(100), 24)

\* mutant: the updated layer is brought to the front, behind it the others
mergeUpdatesBringToFront(layers, layerId, updates) ==
    SelectSeq(layers, LAMBDA layer : layer.id /= layerId)
    \o [i \in 1..Len(SelectSeq(layers, LAMBDA layer : layer.id = layerId)) |->
          [k \in DOMAIN layers[1] |->
              IF k \in DOMAIN updates THEN updates[k]
              ELSE SelectSeq(layers, LAMBDA layer : layer.id = layerId)[i][k]]]

\* template.textLayers.map(layer => layer.id === layerId ? {...layer, ...updates} : layer)
mergeUpdates(layers, layerId, updates) ==
    [i \in 1..Len(layers) |->
        IF layers[i].id = layerId
        THEN [k \in DOMAIN layers[i] |->
                 IF k \in DOMAIN updates THEN updates[k] ELSE layers[i][k]]
        ELSE layers[i]]

\* template.textLayers.filter(layer => layer.id !== layerId)
withoutLayer(layers, layerId) ==
    SelectSeq(layers, LAMBDA layer : layer.id /= layerId)

\* mutant: a fresh layer with the id, the text and the size of the old one
withPositionOfFreshLayer(layer, x, y) ==
    Layer(layer.id, layer.text, layer.isVariable, layer.variableName, x, y,
          layer.fontSize)

\* { ...layer, x, y }
withPosition(layer, x, y) == [layer EXCEPT !.x = x, !.y = y]

\* mutant: every layer on the first line
nextYOnFirstLine(currentY, index) == currentY

\* autoArrangeTexts: const y = currentY + (index * lineHeight)
nextY(currentY, index) == currentY + index * 60

\* The map of autoArrangeTexts from the layer at position `index` (counted
\* from 1, the callback's index is index - 1) with the running currentY:
\*   y = currentY + index * lineHeight; currentY = y
\*   { ...layer, x: padding, y: Math.min(y, template.height - 50) }
RECURSIVE autoArrangeFrom(_, _, _, _)
autoArrangeFrom(layers, index, currentY, height) ==
    IF index > Len(layers) THEN <<>>
    ELSE LET y == nextY(currentY, index - 1)
         IN <<withPosition(layers[index], Num(40),
                           MathMin(Num(y), Num(height - 50)))>>
            \o autoArrangeFrom(layers, index + 1, y, height)

autoArranged(t) == autoArrangeFrom(t.textLayers, 1, 40, t.height)

\* The map of gridArrangeTexts:
\*   cols = ceil(sqrt(n)); rows = ceil(n / cols)
\*   cellWidth = (width - 80) / cols; cellHeight = (height - 80) / rows
\*   x = 40 + col * cellWidth + cellWidth / 4
\*   y = 40 + row * cellHeight + cellHeight / 2
\*   { ...layer, x: Math.min(x, width - 100), y: Math.min(y, height - 50) }
gridCols(n) == ceilSqrt(n)
gridRows(n) == MathCeil(n, gridCols(n))

gridArranged(t) ==
    LET n == Len(t.textLayers)
        cols == gridCols(n)
        rows == gridRows(n)
        cellWidth == Frac(t.width - 80, cols)
        cellHeight == Frac(t.height - 80, rows)
    IN [i \in 1..n |->
          LET col == (i - 1) % cols
              row == (i - 1) \div cols
              x == plus(plus(Num(40), times(Num(col), cellWidth)),
                        over(cellWidth, Num(4)))
              y == plus(plus(Num(40), times(Num(row), cellHeight)),
                        over(cellHeight, Num(2)))
          IN withPosition(t.textLayers[i], MathMin(x, Num(t.width - 100)),
                          MathMin(y, Num(t.height - 50)))]

----------------------------------------------------------------------------
(* Previews                                                                *)

\* mutant: small templates are enlarged to the preview width
previewScaleToFit(width, previewWidth) == Frac(previewWidth, width)

\* Math.min(previewWidth / template.width, 1)
previewScale(width, previewWidth) == MathMin(Frac(previewWidth, width), Num(1))

\* The generator's preview: one wrapper with
\* transform: scale(min(600 / width, 1)), transformOrigin: 'top left',
\* holding the boxes of renderPreview().
generatorPreview(t, previewVariables) ==
    [scale |-> previewScale(t.width, 600), transformOrigin |-> "top left",
     boxes |-> renderPreview(t, previewVariables)]

\* The editor's canvas: the same wrapper with 800, one box per layer
editorPreview(t) ==
    [scale |-> previewScale(t.width, 800), transformOrigin |-> "top left",
     boxes |-> [i \in 1..Len(t.textLayers) |->
                  [id |-> t.textLayers[i].id,
                   left |-> t.textLayers[i].x,
                   top |-> t.textLayers[i].y,
                   opacity |-> opacityOrOne(t.textLayers[i].opacity),
                   text |-> IF t.textLayers[i].isVariable
                            THEN placeholder(IF t.textLayers[i].variableName /= <<>>
                                             THEN t.textLayers[i].variableName
                                             ELSE t.textLayers[i].text)
                            ELSE t.textLayers[i].text]]]

\* Where the top-left corner of box i ends up inside the preview container:
\* CSS applies the wrapper's scale about its transform origin, the wrapper's
\* own top-left corner, to the box's left and top.
onScreen(preview, i) ==
    [left |-> times(preview.scale, preview.boxes[i].left),
     top |-> times(preview.scale, preview.boxes[i].top)]

----------------------------------------------------------------------------
(* Template editor: state and handlers                                     *)

ToastAutoArranged ==
    [type |-> "success", message |-> "Text layers arranged automatically!", count |-> 0]
ToastGridArranged ==
    [type |-> "success", message |-> "Text layers arranged in grid!", count |-> 0]
ToastSaved ==
    [type |-> "success", message |-> "Template saved successfully!", count |-> 0]
ToastSaveFailed ==
    [type |-> "error", message |-> "Failed to save template", count |-> 0]

\* useState<Template | null>: null
NullTemplate == [id |-> "null"]

\* nothing was exported yet
NoExport == [download |-> <<>>, canvas |-> NoDataUrl]

\* the editor is not on screen
NoEditor ==
    [mounted |-> FALSE, template |-> NullTemplate, selectedLayerId |-> NoSelection,
     isSaving |-> FALSE, upserts |-> <<>>, autoSave |-> FALSE, uploads |-> <<>>,
     exports |-> <<>>, exported |-> NoExport]

\* The auto-save effect, which runs after every render that changed the
\* template: the pending timer is cleared, and a new one is set when the
\* template has layers.
autoSaveEffect(t) == t /= NullTemplate /\ Len(t.textLayers) > 0

\* the editor opened on initialTemplate, after its effects have run
EditorMounted(initialTemplate) ==
    [mounted |-> TRUE, template |-> initialTemplate, selectedLayerId |-> NoSelection,
     isSaving |-> FALSE, upserts |-> <<>>, autoSave |-> autoSaveEffect(initialTemplate),
     uploads |-> <<>>, exports |-> <<>>, exported |-> NoExport]

\* setTemplate(t), and the effect that follows
setTemplate(t) == [editor EXCEPT !.template = t, !.autoSave = autoSaveEffect(t)]

\* Date.now() moves on between two handlers
Tick ==
    /\ now < MaxClock
    /\ now' = now + 1
    /\ UNCHANGED <<editor, toast, generatorVars>>

\* click on "Add Text"; updatedAt: new Date().toISOString(), kept as the
\* clock value
addTextLayer ==
    /\ editor.mounted
    /\ editor.template /= NullTemplate
    /\ Len(editor.template.textLayers) < MaxEditorLayers
    /\ editor' = [setTemplate([editor.template EXCEPT
                                  !.textLayers = Append(@, newLayer(now)),
                                  !.updatedAt = now])
                  EXCEPT !.selectedLayerId = LayerId(now)]
    /\ UNCHANGED <<now, toast, generatorVars>>

\* a control of the properties panel, or the end of a drag
updateTextLayer(layerId, updates) ==
    /\ editor.mounted
    /\ editor.template /= NullTemplate
    /\ editor' = setTemplate([editor.template EXCEPT
                                 !.textLayers = mergeUpdates(@, layerId, updates),
                                 !.updatedAt = now])
    /\ UNCHANGED <<now, toast, generatorVars>>

\* click on the delete button of a layer
deleteTextLayer(layerId) ==
    /\ editor.mounted
    /\ editor.template /= NullTemplate
    /\ editor' = [setTemplate([editor.template EXCEPT
                                  !.textLayers = withoutLayer(@, layerId),
                                  !.updatedAt = now])
                  EXCEPT !.selectedLayerId = NoSelection]
    /\ UNCHANGED <<now, toast, generatorVars>>

\* click on "Auto Arrange"
autoArrangeTexts ==
    /\ editor.mounted
    /\ IF editor.template = NullTemplate \/ Len(editor.template.textLayers) = 0
       THEN UNCHANGED <<editor, toast>>
       ELSE /\ editor' = setTemplate([editor.template EXCEPT
                                         !.textLayers = autoArranged(editor.template),
                                         !.updatedAt = now])
            /\ toast' = ToastAutoArranged
    /\ UNCHANGED <<now, generatorVars>>

\* click on "Grid Layout"
gridArrangeTexts ==
    /\ editor.mounted
    /\ IF editor.template = NullTemplate \/ Len(editor.template.textLayers) = 0
       THEN UNCHANGED <<editor, toast>>
       ELSE /\ editor' = setTemplate([editor.template EXCEPT
                                         !.textLayers = gridArranged(editor.template),
                                         !.updatedAt = now])
            /\ toast' = ToastGridArranged
    /\ UNCHANGED <<now, generatorVars>>

\* saveTemplate(silent) up to `await blink.db.templates.upsert(templateData)`,
\* as a change of the component `ed`; the user prop is never null while the
\* editor is shown (App.renderContent).  templateData is the template with
\* updatedAt: new Date().toISOString().
saveTemplate(ed, silent) ==
    IF ed.template = NullTemplate THEN ed
    ELSE [ed EXCEPT !.isSaving = TRUE,
                    !.upserts = Append(@, [silent |-> silent,
                                           templateData |->
                                               [ed.template EXCEPT !.updatedAt = now]])]

\* click on "Save Template" (disabled while isSaving)
clickSave ==
    /\ editor.mounted
    /\ ~editor.isSaving
    /\ Len(editor.upserts) < MaxUpserts
    /\ editor' = saveTemplate(editor, FALSE)
    /\ UNCHANGED <<now, toast, generatorVars>>

\* the timer of the auto-save effect elapses: saveTemplate(true)
autoSaveTimeout ==
    /\ editor.autoSave
    /\ Len(editor.upserts) < MaxUpserts
    /\ editor' = saveTemplate([editor EXCEPT !.autoSave = FALSE], TRUE)
    /\ UNCHANGED <<now, toast, generatorVars>>

\* upserts without the i-th
settled(upserts, i) == SubSeq(upserts, 1, i - 1) \o SubSeq(upserts, i + 1, Len(upserts))

\* The i-th upsert in flight resolves, and saveTemplate continues after its
\* await.  A save that was not silent raises the success toast and calls
\* onTemplateCreated, whose handler in App switches to the gallery: the
\* editor is unmounted and the clean-up of its effect clears the timer.
upsertResolved(i) ==
    /\ i \in 1..Len(editor.upserts)
    /\ IF editor.upserts[i].silent
       THEN /\ editor' = [editor EXCEPT !.isSaving = FALSE,
                                         !.upserts = settled(@, i)]
            /\ UNCHANGED toast
       ELSE /\ editor' = [editor EXCEPT !.isSaving = FALSE,
                                         !.upserts = settled(@, i),
                                         !.mounted = FALSE,
                                         !.autoSave = FALSE]
            /\ toast' = ToastSaved
    /\ UNCHANGED <<now, generatorVars>>

\* The i-th upsert in flight rejects: the catch block logs to the console
\* and raises a toast unless the save was silent.
upsertRejected(i) ==
    /\ i \in 1..Len(editor.upserts)
    /\ editor' = [editor EXCEPT !.isSaving = FALSE, !.upserts = settled(@, i)]
    /\ toast' = IF editor.upserts[i].silent THEN toast ELSE ToastSaveFailed
    /\ UNCHANGED <<now, generatorVars>>

\* `template-${Date.now()}`
TemplateId(time) == <<"template", time>>

ToastUploaded ==
    [type |-> "success", message |-> "Background image uploaded!", count |-> 0]

\* the template createNewTemplate sets
newTemplate(backgroundImage, width, height, time) ==
    [id |-> TemplateId(time), name |-> "Untitled Template",
     backgroundImage |-> backgroundImage, textLayers |-> <<>>,
     width |-> width, height |-> height, createdAt |-> time, updatedAt |-> time]

\* a background that keeps the size of the one before
withBackgroundOfOldSize(t, imageUrl, size, time) ==
    [t EXCEPT !.backgroundImage = imageUrl, !.updatedAt = time]

\* { ...template, backgroundImage, width, height, updatedAt } of img.onload
withBackground(t, imageUrl, size, time) ==
    [t EXCEPT !.backgroundImage = imageUrl, !.width = size[1], !.height = size[2],
              !.updatedAt = time]

\* processImageFile(file): the file reader and the image element are
\* started; their callbacks close over the template of the render whose
\* processImageFile was called.  A file is named by the image it holds.
processImageFile(file) ==
    [editor EXCEPT !.uploads = Append(@, [template |-> editor.template, imageUrl |-> file])]

\* a file is chosen in the dialog of "Change Background" or of the upload
\* button
handleBackgroundUpload(file) ==
    /\ editor.mounted
    /\ Len(editor.uploads) < MaxUploads
    /\ editor' = processImageFile(file)
    /\ UNCHANGED <<now, toast, generatorVars>>

\* an image file is dropped on the upload area, which is on screen while
\* there is no template
handleDrop(file) ==
    /\ editor.mounted
    /\ editor.template = NullTemplate
    /\ Len(editor.uploads) < MaxUploads
    /\ editor' = processImageFile(file)
    /\ toast' = ToastUploaded
    /\ UNCHANGED <<now, generatorVars>>

\* reader.onload and then img.onload of the i-th file being processed:
\* uploads finish in any order, each with the template it closed over
backgroundLoaded(i) ==
    /\ editor.mounted
    /\ i \in 1..Len(editor.uploads)
    /\ LET upload == editor.uploads[i]
           size == intrinsicSize(upload.imageUrl)
       IN  editor' =
               [setTemplate(IF upload.template /= NullTemplate
                            THEN withBackground(upload.template, upload.imageUrl, size, now)
                            ELSE newTemplate(upload.imageUrl, size[1], size[2], now))
                   EXCEPT !.uploads = settled(@, i)]
    /\ UNCHANGED <<now, toast, generatorVars>>

\* One layer as the img.onload of exportImage paints it, between ctx.save()
\* and ctx.restore(): the origin is moved to (x, y + fontSize) and the text
\* is drawn at (0, 0) with the layer's rotation (layer.rotation || 0 is the
\* rotation), globalAlpha = layer.opacity || 1, the shadow if it is enabled,
\* and strokeText before fillText if the stroke is enabled.
exportText(layer) ==
    [text |-> IF layer.isVariable
              THEN placeholder(IF layer.variableName /= <<>> THEN layer.variableName
                               ELSE layer.text)
              ELSE layer.text,
     x |-> layer.x, y |-> plus(layer.y, Num(layer.fontSize)),
     font |-> <<layer.fontWeight, layer.fontSize, layer.fontFamily>>,
     fillStyle |-> layer.color, textAlign |-> layer.textAlign,
     globalAlpha |-> opacityOrOne(layer.opacity),
     rotation |-> layer.rotation,
     shadow |-> IF layer.textShadow.enabled THEN layer.textShadow
                ELSE ContextDefaults.shadow,
     calls |-> IF layer.textStroke.enabled THEN <<"strokeText", "fillText">>
               ELSE <<"fillText">>]

\* the canvas of exportImage when img.onload has painted it
exportCanvas(t) ==
    Canvas(t, t.backgroundImage, [i \in 1..Len(t.textLayers) |-> exportText(t.textLayers[i])])

\* exportImage up to its return:
\*   "return"   no template, or no 2d context
\*   "pending"  img.src was set; the export goes on in img.onload
\*   "nothing"  the template has no background: the try block ends
exportImageOutcome(t, env) ==
    IF t = NullTemplate \/ env = "noContext" THEN "return"
    ELSE IF t.backgroundImage /= NoImage THEN "pending"
    ELSE "nothing"

\* what the browser does during one call of exportImage
ExportEnv == {"ok", "noContext"}

\* click on "Export": the button is never disabled, and the callbacks of
\* the call close over the template of the render
exportImage(env) ==
    /\ editor.mounted
    /\ editor.template /= NullTemplate
    /\ Len(editor.exports) < MaxExports
    /\ editor' = IF exportImageOutcome(editor.template, env) = "pending"
                 THEN [editor EXCEPT !.exports = Append(@, editor.template)]
                 ELSE editor
    /\ UNCHANGED <<now, toast, generatorVars>>

\* img.onload of the i-th export, and the callback of canvas.toBlob: the
\* layers are painted over the image and the file `${template.name}.png`
\* is downloaded
exportLoaded(i) ==
    /\ i \in 1..Len(editor.exports)
    /\ decodes(editor.exports[i].backgroundImage)
    /\ editor' = [editor EXCEPT
                     !.exports = settled(@, i),
                     !.exported = [download |-> <<editor.exports[i].name, ".png">>,
                                   canvas |-> exportCanvas(editor.exports[i])]]
    /\ UNCHANGED <<now, toast, generatorVars>>

\* typing in the name field: setTemplate({ ...template, name })
renameTemplate(name) ==
    /\ editor.mounted
    /\ editor.template /= NullTemplate
    /\ editor' = setTemplate([editor.template EXCEPT !.name = name])
    /\ UNCHANGED <<now, toast, generatorVars>>

----------------------------------------------------------------------------
(* Inputs of the editor                                                    *)

\* a stored template as the gallery hands it to the editor
EditorTemplate(width, height, layers) ==
    [id |-> TemplateId(-1), name |-> "Untitled Template",
     backgroundImage |->
         CHOOSE src \in {IconImage, GoodImage, WideImage} :
             intrinsicSize(src) = <<width, height>>,
     textLayers |-> layers,
     width |-> width, height |-> height, createdAt |-> 0, updatedAt |-> 0]

\* an icon, the size of the spec's scenarios, and an image wider than both
\* previews
EditorSizes == {<<64, 64>>, <<800, 600>>, <<1200, 600>>}

\* a variable layer with every styling option set, created before the
\* editor was opened
StoredLayer ==
    Styled(Layer(LayerId(-1), <<"t">>, TRUE, NameA, Num(50), Num(50), 24),
           50, 90, TRUE, TRUE)

EditorTemplates ==
    {EditorTemplate(size[1], size[2], <<>>) : size \in EditorSizes}
    \cup {EditorTemplate(800, 600, <<StoredLayer>>)}

\* where the end of a drag puts a layer: half a pixel counts, and the layer
\* may end below the clamp of the layout tools
LayerUpdates == {[x |-> Frac(25, 2), y |-> Num(580)]}

\* what the properties panel sets
TextUpdates == {[text |-> <<"H", "i">>]}

\* what is typed in the name field
TemplateNames == {"Card"}

\* where the opacity slider is put: its range is 0..100, and the handler
\* divides by 100
OpacityUpdates == {[opacity |-> 0], [opacity |-> 25]}

\* a stored template without background: backgroundImage is the empty
\* string, which the editor and the generator both test for
WithoutBackground(t) == [t EXCEPT !.backgroundImage = NoImage]

\* the files of the computer: an image smaller than the stored background
\* and one larger
Files == {IconImage, WideImage}

EditorIds ==
    IF editor.template = NullTemplate
    THEN {}
    ELSE {editor.template.textLayers[i].id : i \in 1..Len(editor.template.textLayers)}
----------------------------------------------------------------------------
(* Specifications                                                          *)

TypeVariable ==
    \E i \in 1..Len(variableNames(template)), value \in Values :
        handleVariableChange(variableNames(template)[i], value)

\* The generator is not on screen while the editor is, and the editor is not
\* while the generator is.
EditorClosed == editor = NoEditor /\ now = 0

\* The batch tab, on a few templates and CSV texts.
Init ==
    /\ \E t \in GeneratorTemplates \cup {ScenarioTemplate} : Mounted(t)
    /\ EditorClosed

Next ==
    \/ \E text \in Texts : setBatchData(text)
    \/ handleBatchGenerate
    \/ imgOnload
    \/ imgError

Spec == Init /\ [][Next]_vars

\* The single-generation tab, on every template of the wide set.
WideInit ==
    /\ \E t \in WideTemplates : Mounted(t)
    /\ EditorClosed

WideNext ==
    \/ TypeVariable
    \/ \E env \in Env : handleGenerate(env)
    \/ imgOnload
    \/ imgError

WideSpec == WideInit /\ [][WideNext]_vars

\* Both tabs of the generator on one template: a single generation and a
\* batch may be asked for in any order.
TabsInit ==
    /\ \E image \in Images : Mounted(TemplateOf(OneVariable, image))
    /\ EditorClosed

TabsNext ==
    \/ TypeVariable
    \/ setBatchData(CsvText(NameA, MaxRows))
    \/ \E env \in Env : handleGenerate(env)
    \/ handleBatchGenerate
    \/ imgOnload
    \/ imgError

TabsSpec == TabsInit /\ [][TabsNext]_vars

\* The editor's layer handlers and layout tools, on templates of every size.
EditorInit ==
    /\ Mounted(ScenarioTemplate)
    /\ now = 0
    /\ \E t \in EditorTemplates : editor = EditorMounted(t)

EditorNext ==
    \/ Tick
    \/ addTextLayer
    \/ \E layerId \in EditorIds, updates \in LayerUpdates : updateTextLayer(layerId, updates)
    \/ \E layerId \in EditorIds : deleteTextLayer(layerId)
    \/ autoArrangeTexts
    \/ gridArrangeTexts

EditorSpec == EditorInit /\ [][EditorNext]_vars

\* Saving: the Save button, the auto-save timer and the upserts in flight.
SaveInit ==
    /\ Mounted(ScenarioTemplate)
    /\ now = 0
    /\ \E layers \in {<<>>, <<StoredLayer>>} : editor = EditorMounted(EditorTemplate(800, 600, layers))

SaveNext ==
    \/ Tick
    \/ addTextLayer
    \/ \E layerId \in EditorIds, updates \in TextUpdates : updateTextLayer(layerId, updates)
    \/ clickSave
    \/ autoSaveTimeout
    \/ \E i \in 1..MaxUpserts : upsertResolved(i)
    \/ \E i \in 1..MaxUpserts : upsertRejected(i)

SaveSpec == SaveInit /\ [][SaveNext]_vars

\* The editor with its background: opened empty or on a stored template,
\* with files uploaded and a layer edited meanwhile.
UploadInit ==
    /\ Mounted(ScenarioTemplate)
    /\ now = 0
    /\ \E t \in {NullTemplate, EditorTemplate(800, 600, <<StoredLayer>>)} :
           editor = EditorMounted(t)

UploadNext ==
    \/ Tick
    \/ \E layerId \in EditorIds, updates \in TextUpdates : updateTextLayer(layerId, updates)
    \/ \E file \in Files : handleBackgroundUpload(file)
    \/ \E file \in Files : handleDrop(file)
    \/ \E i \in 1..MaxUploads : backgroundLoaded(i)

UploadSpec == UploadInit /\ [][UploadNext]_vars

\* The editor with its export: the opacity slider is moved, the template is
\* renamed and exported, with and without background.
ExportInit ==
    /\ Mounted(ScenarioTemplate)
    /\ now = 0
    /\ \E t \in {EditorTemplate(800, 600, <<StoredLayer>>),
                  WithoutBackground(EditorTemplate(800, 600, <<StoredLayer>>))} :
           editor = EditorMounted(t)

ExportNext ==
    \/ Tick
    \/ \E layerId \in EditorIds, updates \in OpacityUpdates : updateTextLayer(layerId, updates)
    \/ \E name \in TemplateNames : renameTemplate(name)
    \/ \E env \in ExportEnv : exportImage(env)
    \/ \E i \in 1..MaxExports : exportLoaded(i)

ExportSpec == ExportInit /\ [][ExportNext]_vars

\* The editor with its name field: layers are added, removed and arranged
\* and the template is renamed while time passes.
NameInit ==
    /\ Mounted(ScenarioTemplate)
    /\ now = 0
    /\ editor = EditorMounted(EditorTemplate(800, 600, <<>>))

NameNext ==
    \/ Tick
    \/ addTextLayer
    \/ \E layerId \in EditorIds : deleteTextLayer(layerId)
    \/ autoArrangeTexts
    \/ gridArrangeTexts
    \/ \E name \in TemplateNames : renameTemplate(name)

NameSpec == NameInit /\ [][NameNext]_vars


----------------------------------------------------------------------------
(* Properties of the render and of the batch pipeline (Spec)               *)

Layers == template.textLayers
LayerIds == 1..Len(Layers)

\* the records a run has produced so far, finished or not
Records == {generatedImages, batch.newGeneratedImages}

\* the data line a record was rendered from
RowOf(record) == record.id

AllFulfilled(outcomes) == \A i \in 1..Len(outcomes) : outcomes[i] = "fulfilled"

\* the number of line breaks of a text
RECURSIVE CountNL(_)
CountNL(s) == IF s = <<>> THEN 0
              ELSE (IF Head(s) = NL THEN 1 ELSE 0) + CountNL(Tail(s))

\* C1: a render whose background image failed to decode still completes: it
\* is never left pending after the decode failure.
C1_RenderSurvivesDecodeFailure ==
    ~(pending.handler /= "none" /\ pending.img = "error")

\* C2: a row whose render fails is skipped and never fatal: the batch is
\* never aborted, never left waiting on a render that has failed, and when
\* it completes every data line was attempted and there is one record for
\* every line whose render succeeded.
C2_FailedRowNeverFatal ==
    /\ batch.status /= "failed"
    /\ ~(batch.status = "awaiting" /\ pending.img \in {"error", "thrown"})
    /\ batch.status = "completed" =>
          /\ Len(batch.outcomes) = Len(batch.dataRows)
          /\ Len(generatedImages) =
                Cardinality({i \in 1..Len(batch.outcomes) :
                                batch.outcomes[i] = "fulfilled"})

\* C3: input without data lines (empty, whitespace only, or a header line
\* alone) is rejected before any processing: no batch run starts on it.
C3_EmptyInputRejected ==
    batch.status /= "none" => CountNL(trim(batch.text)) > 0

\* C4: the records of a run are in the order of their data lines, whichever
\* other lines failed.
C4_RecordsInRowOrder ==
    \A images \in Records :
        \A i, j \in 1..Len(images) :
            i < j => RowOf(images[i]) < RowOf(images[j])

C4_Witness ==
    /\ batch.status = "completed"
    /\ batch.outcomes = <<"fulfilled", "null", "fulfilled">>
    /\ Len(generatedImages) = 2
    /\ generatedImages = batch.newGeneratedImages

\* C5: when every render succeeds the batch yields one record per data line,
\* the i-th record carrying the bindings of the i-th data line; the text
\* "name\nAda\nGrace" on the template whose only variable is `name` yields
\* two records, bound to Ada and to Grace.
C5_OneRecordPerDataLine ==
    (batch.status = "completed" /\ AllFulfilled(batch.outcomes)) =>
        /\ Len(generatedImages) = CountNL(trim(batch.text))
        /\ \A i \in 1..Len(generatedImages) :
              /\ RowOf(generatedImages[i]) = i
              /\ generatedImages[i].variables =
                    rowVariablesOf(template, headersOf(batch.text),
                                   dataRowsOf(batch.text)[i])
        /\ (template = ScenarioTemplate /\ batch.text = ScenarioText) =>
              /\ Len(generatedImages) = 2
              /\ generatedImages[1].variables = [k \in {NameName} |-> Ada]
              /\ generatedImages[2].variables = [k \in {NameName} |-> Grace]

C5_Witness ==
    /\ template = ScenarioTemplate
    /\ batch.status = "completed"
    /\ batch.text = ScenarioText
    /\ AllFulfilled(batch.outcomes)
    /\ Len(generatedImages) = 2
    /\ generatedImages[2].dataUrl.texts[1].text = Grace

\* the names the template knows, as a set
KnownNames == {variableNames(template)[i] : i \in 1..Len(variableNames(template))}

\* the cell of data line `row` under the first header column called `name`,
\* or <<>> when the header has no such column or the line has fewer cells
CellOf(headers, row, name) ==
    LET values == mapTrim(split(row, COMMA))
        column == indexOf(headers, name)
    IN IF column = 0 \/ column > Len(values) THEN <<>> ELSE values[column]

\* C11: in the bindings of every data line each name known to the template
\* is a key, bound to the empty string when the header has no column for it
\* or the line has fewer cells, and no other header is a key.
C11_MissingColumnsBoundToEmpty ==
    \A images \in Records : \A r \in 1..Len(images) :
        LET row == batch.dataRows[RowOf(images[r])]
            bound == images[r].variables
        IN /\ DOMAIN bound \subseteq KnownNames
           /\ \A name \in KnownNames :
                 /\ name \in DOMAIN bound
                 /\ CellOf(batch.headers, row, name) = <<>> => bound[name] = <<>>

\* the numbers a notification tells the user
Reported(t) == IF t.message = "Generated N images!" THEN {t.count} ELSE {}

\* C12: the notification that ends a batch run tells both how many data
\* lines were attempted and how many of them succeeded.
C12_AttemptedAndSucceededReported ==
    (batch.status = "completed" /\ toast.type = "success") =>
        /\ Len(batch.newGeneratedImages) \in Reported(toast)
        /\ Len(batch.dataRows) \in Reported(toast)

\* C13: after a batch run has ended, with every line rendered, with lines
\* skipped or with an error, the collection holds the records of that run
\* and no record of an earlier run.
C13_CollectionReplacedByEveryRun ==
    batch.status \in {"completed", "failed"} =>
        \A i \in 1..Len(generatedImages) :
            \E j \in 1..Len(batch.newGeneratedImages) :
                batch.newGeneratedImages[j] = generatedImages[i]

\* C18: the render used by single and batch generation draws every layer
\* with the layer's own styling: global alpha equal to the opacity, the
\* rotation applied, the shadow when it is enabled, and the outline stroked
\* before the fill when it is enabled.
C18_RenderAppliesLayerStyling ==
    \A images \in Records : \A r \in 1..Len(images) : \A i \in LayerIds :
        LET painted == images[r].dataUrl.texts[i]
        IN /\ painted.globalAlpha = Layers[i].opacity
           /\ painted.rotation = Layers[i].rotation
           /\ Layers[i].textShadow.enabled => painted.shadow = Layers[i].textShadow
           /\ Layers[i].textStroke.enabled =>
                 painted.calls = <<"strokeText", "fillText">>

\* a render has been started and has not finished
RenderInFlight == pending.handler /= "none"

\* what C26 says of one state
OneRenderAtATime ==
    /\ isGenerating <=> RenderInFlight
    /\ (batch.status = "awaiting" /\ pending.handler = "batch") =>
          /\ batch.index \in 1..Len(batch.dataRows)
          /\ pending.img = "loading" => Len(batch.outcomes) = batch.index - 1

\* C26: at most one render is in flight: a generation, single or batch, is
\* started only while none is running, the render of a data line starts
\* only when the renders of all lines before it have finished, and
\* isGenerating is true exactly while a generation has not ended.
C26_OneRenderInFlight ==
    [][/\ OneRenderAtATime
       /\ OneRenderAtATime'
       /\ ((\E env \in Env : handleGenerate(env)) \/ handleBatchGenerate) =>
             /\ ~isGenerating
             /\ ~RenderInFlight
      ]_vars

\* a batch waiting for the render of its second line, asked for after a
\* single generation had ended with its download
C26_Witness ==
    /\ isGenerating
    /\ pending.handler = "batch"
    /\ pending.img = "loading"
    /\ batch.status = "awaiting"
    /\ batch.index = 2
    /\ batch.outcomes = <<"fulfilled">>
    /\ download /= <<>>

----------------------------------------------------------------------------
(* Properties of the editor: layout tools, previews, notifications         *)

EditorLayers == editor.template.textLayers

less(a, b) == lessEq(a, b) /\ a /= b

\* C14: Auto-Arrange gives the layer at index i (from 0) x = 40 and
\* y = min(40 + i * 60, height - 50): linear in the index, never above
\* height - 50.
C14_AutoArrangeLinearInIndex ==
    [][autoArrangeTexts =>
          \A i \in 1..Len(editor'.template.textLayers) :
              /\ editor'.template.textLayers[i].x = Num(40)
              /\ editor'.template.textLayers[i].y =
                     MathMin(Num(40 + (i - 1) * 60), Num(editor.template.height - 50))
      ]_vars

\* C15: Auto-Arrange on a template of height 600 with three layers yields
\* strictly increasing y, none above 550.
C15_ThreeLayersIncreasingWithinBounds ==
    [][(autoArrangeTexts /\ Len(EditorLayers) = 3 /\ editor.template.height = 600) =>
          LET arranged == editor'.template.textLayers
          IN /\ Len(arranged) = 3
             /\ less(arranged[1].y, arranged[2].y)
             /\ less(arranged[2].y, arranged[3].y)
             /\ \A i \in 1..3 : lessEq(arranged[i].y, Num(550))
      ]_vars

\* three layers, moved from x = 100 where they were added to the padding
C15_Witness ==
    /\ toast = ToastAutoArranged
    /\ editor.template.height = 600
    /\ Len(EditorLayers) = 3
    /\ \A i \in 1..3 : EditorLayers[i].x = Num(40)
    /\ less(EditorLayers[1].y, EditorLayers[2].y)
    /\ less(EditorLayers[2].y, EditorLayers[3].y)

\* C16: Grid-Arrange puts layer i (from 0) of n in column i mod cols and row
\* floor(i / cols) of a grid of cols = ceil(sqrt(n)) columns, and every
\* coordinate lies within the template: 0 <= x <= width, 0 <= y <= height,
\* for every positive width and height.
C16_GridWithinTemplate ==
    [][gridArrangeTexts =>
          LET arranged == editor'.template.textLayers
              cols == ceilSqrt(Len(arranged))
          IN \A i \in 1..Len(arranged) :
                /\ \A j \in 1..Len(arranged) :
                      /\ (i - 1) % cols = (j - 1) % cols => arranged[i].x = arranged[j].x
                      /\ (i - 1) \div cols = (j - 1) \div cols =>
                             arranged[i].y = arranged[j].y
                /\ lessEq(Num(0), arranged[i].x)
                /\ lessEq(arranged[i].x, Num(editor.template.width))
                /\ lessEq(Num(0), arranged[i].y)
                /\ lessEq(arranged[i].y, Num(editor.template.height))
      ]_vars

\* C17: the two layout tools change nothing but x and y: the same layers in
\* the same order with the same ids and every other field as before, and
\* the template's name, background image, width and height as before.
C17_ArrangeChangesOnlyPositions ==
    [][(autoArrangeTexts \/ gridArrangeTexts) =>
          LET before == editor.template
              after == editor'.template
          IN /\ Len(after.textLayers) = Len(before.textLayers)
             /\ \A i \in 1..Len(before.textLayers) :
                   /\ DOMAIN after.textLayers[i] = DOMAIN before.textLayers[i]
                   /\ \A field \in DOMAIN before.textLayers[i] \ {"x", "y"} :
                         after.textLayers[i][field] = before.textLayers[i][field]
             /\ after.name = before.name
             /\ after.backgroundImage = before.backgroundImage
             /\ after.width = before.width
             /\ after.height = before.height
      ]_vars

\* the stored layer with its styling, moved by the grid tool next to a
\* layer that was added
C17_Witness ==
    /\ toast = ToastGridArranged
    /\ Len(EditorLayers) = 2
    /\ EditorLayers[1] = withPosition(StoredLayer, EditorLayers[1].x, EditorLayers[1].y)
    /\ EditorLayers[1].x /= StoredLayer.x
    /\ EditorLayers[2].id /= EditorLayers[1].id
    /\ EditorLayers[2].x /= Num(100)

\* x * min(previewWidth / width, 1), computed without the preview
scaledBy(x, width, previewWidth) ==
    IF width <= previewWidth THEN x ELSE Frac(x[1] * previewWidth, x[2] * width)

PreviewsOf(t) == {<<generatorPreview(t, EmptyRecord), 600>>, <<editorPreview(t), 800>>}

C20_FailedSaveNotified ==
    [][(\E i \in 1..MaxUpserts : upsertRejected(i)) => toast' = ToastSaveFailed]_vars

----------------------------------------------------------------------------
(* Properties of the editor: layer order, ids, time stamps, saving         *)

\* sub is seq with some elements left out
RECURSIVE IsSubsequence(_, _)
IsSubsequence(sub, seq) ==
    IF sub = <<>> THEN TRUE
    ELSE IF seq = <<>> THEN FALSE
    ELSE IF Head(sub) = Head(seq) THEN IsSubsequence(Tail(sub), Tail(seq))
    ELSE IsSubsequence(sub, Tail(seq))

\* C21: the editing operations keep the z-order of the layers: add appends
\* at the end, update (a drag included) keeps every layer at its index and
\* touches no other layer, delete removes the layers of the named id and
\* leaves the others in their order.
C21_EditsKeepLayerOrder ==
    [][LET before == editor.template.textLayers
           after == editor'.template.textLayers
       IN /\ addTextLayer =>
                /\ Len(after) = Len(before) + 1
                /\ SubSeq(after, 1, Len(before)) = before
          /\ \A layerId \in EditorIds, updates \in LayerUpdates \cup TextUpdates :
                updateTextLayer(layerId, updates) =>
                    /\ Len(after) = Len(before)
                    /\ \A i \in 1..Len(before) :
                          /\ after[i].id = before[i].id
                          /\ before[i].id /= layerId => after[i] = before[i]
          /\ \A layerId \in EditorIds :
                deleteTextLayer(layerId) =>
                    /\ IsSubsequence(after, before)
                    /\ \A i \in 1..Len(after) : after[i].id /= layerId
                    /\ Len(after) = Len(before) -
                           Cardinality({i \in 1..Len(before) : before[i].id = layerId})
      ]_vars

\* the stored layer below a layer that was added later and dragged, after
\* the layer between them was deleted
C21_Witness ==
    /\ editor.mounted
    /\ editor.selectedLayerId = NoSelection
    /\ Len(EditorLayers) = 2
    /\ EditorLayers[1] = StoredLayer
    /\ EditorLayers[2].id = LayerId(2)
    /\ EditorLayers[2].x = Frac(25, 2)

\* C27: the ids of the layers of a template are pairwise distinct, also when
\* two layers are added within the same millisecond, so that an update or a
\* delete addressed to an id reaches exactly one layer.
C27_LayerIdsDistinct ==
    editor.template /= NullTemplate =>
        \A i, j \in 1..Len(EditorLayers) :
            i /= j => EditorLayers[i].id /= EditorLayers[j].id

\* C29: while the editor is shown, isSaving is true exactly when an upsert
\* is in flight, also when a manual save and an auto-save overlap.
C29_IsSavingWhileUpsertInFlight ==
    editor.mounted => (editor.isSaving <=> Len(editor.upserts) > 0)

\* C30: every change of the template starts the debounce window anew, for
\* every template state, also one whose last layer was just deleted; and the
\* upsert issued when the window has passed carries exactly the template as
\* it is then.
C30_EveryStateAutoSaved ==
    [][/\ (editor'.mounted /\ editor'.template /= editor.template) => editor'.autoSave
       /\ autoSaveTimeout =>
             /\ Len(editor'.upserts) = Len(editor.upserts) + 1
             /\ editor'.upserts[Len(editor'.upserts)].templateData =
                    [editor.template EXCEPT !.updatedAt = now]
      ]_vars

\* C22: a step of the editor that changes the template sets updatedAt to the
\* time of the step, and updatedAt never decreases.  Typing in the name
\* field changes the template and leaves updatedAt as it was.
C22_MutationsRefreshUpdatedAt ==
    [][(editor.template /= NullTemplate /\ editor'.template /= NullTemplate) =>
          /\ editor'.template.updatedAt >= editor.template.updatedAt
          /\ editor'.template /= editor.template => editor'.template.updatedAt = now'
      ]_vars

\* C23: a template with a background has the width and height of that
\* image, whatever the order in which the uploads finish.
C23_SizeIsThatOfBackground ==
    (editor.template /= NullTemplate /\ editor.template.backgroundImage /= NoImage) =>
        <<editor.template.width, editor.template.height>> =
            intrinsicSize(editor.template.backgroundImage)

\* Two uploads overlap and the later one has finished first: the icon was
\* chosen before the text edit and is still being decoded, the wide image
\* was chosen after the edit and is the background.
C23_Witness ==
    /\ Len(editor.uploads) = 1
    /\ editor.uploads[1].imageUrl = IconImage
    /\ editor.uploads[1].template /= NullTemplate
    /\ Len(editor.uploads[1].template.textLayers) = 1
    /\ editor.uploads[1].template.textLayers[1].text = <<"t">>
    /\ editor.template.backgroundImage = WideImage
    /\ editor.template.width = 1200
    /\ Len(editor.template.textLayers) = 1
    /\ editor.template.textLayers[1].text = <<"H", "i">>

\* C28: when the image of an upload is decoded, the template on screen
\* keeps its layers, name, id and creation time: only the background, the
\* size and updatedAt change.  The callback writes the template it closed
\* over when the file was chosen, so an edit made since then is lost.
C28_UploadKeepsEdits ==
    [][\A i \in 1..MaxUploads :
          (backgroundLoaded(i) /\ editor.template /= NullTemplate) =>
              /\ editor'.template.textLayers = editor.template.textLayers
              /\ editor'.template.name = editor.template.name
              /\ editor'.template.id = editor.template.id
              /\ editor'.template.createdAt = editor.template.createdAt
      ]_vars

\* C24: the editor's preview, the generator's preview and the exported
\* raster all show a layer with the alpha layer.opacity (in hundredths),
\* also when the opacity is 0.  The three places compute layer.opacity || 1,
\* which is 1 for the opacity 0.
C24_AlphaIsLayerOpacity ==
    (editor.mounted /\ editor.template /= NullTemplate) =>
        \A k \in 1..Len(editor.template.textLayers) :
            /\ editorPreview(editor.template).boxes[k].opacity =
                   editor.template.textLayers[k].opacity
            /\ generatorPreview(editor.template, EmptyRecord).boxes[k].opacity =
                   editor.template.textLayers[k].opacity
            /\ exportCanvas(editor.template).texts[k].globalAlpha =
                   editor.template.textLayers[k].opacity

\* C25: a template without background is still rendered to an image by
\* both paths: generateImageCanvas is fulfilled with a data URL, and a
\* click on "Export" with a 2d context leads to a download.  exportImage
\* paints and downloads only inside the img.onload of the background.
C25_RendersWithoutBackground ==
    /\ \A t \in GeneratorTemplates :
           t.backgroundImage = NoImage =>
               generateImageCanvas(t, EmptyRecord, "ok").state = "fulfilled"
    /\ (editor.mounted /\ editor.template /= NullTemplate) =>
           exportImageOutcome(editor.template, "ok") = "pending"

----------------------------------------------------------------------------
(* Properties of the variable extractor and of the substitution            *)

\* the binding slot of a layer: variableName if present and non-empty,
\* otherwise the literal text
KeyOf(layer) == IF layer.variableName /= <<>> THEN layer.variableName ELSE layer.text

\* the layers that are variables and carry a name
NamedVariables == {i \in LayerIds : Layers[i].isVariable /\ Layers[i].variableName /= <<>>}

\* the first layer that declares variable `name`
FirstLayerOf(name) ==
    CHOOSE i \in NamedVariables :
        /\ Layers[i].variableName = name
        /\ \A j \in NamedVariables : Layers[j].variableName = name => i <= j

\* C6: the extractor returns every distinct variable name exactly once, in
\* the order of first occurrence in textLayers; layers that are not variables
\* contribute nothing.
C6_DistinctNamesInFirstOccurrenceOrder ==
    LET names == variableNames(template)
    IN /\ \A i, j \in 1..Len(names) : i /= j => names[i] /= names[j]
       /\ {names[i] : i \in 1..Len(names)} =
             {Layers[i].variableName : i \in NamedVariables}
       /\ \A i, j \in 1..Len(names) :
             i < j => FirstLayerOf(names[i]) < FirstLayerOf(names[j])
       /\ DOMAIN variables = {names[i] : i \in 1..Len(names)}

\* two layers share one name, a third name comes first
C6_Witness ==
    /\ \E i, j \in NamedVariables :
          i < j /\ Layers[i].variableName = Layers[j].variableName
    /\ \E i \in LayerIds : ~Layers[i].isVariable /\ Layers[i].variableName /= <<>>
    /\ Len(variableNames(template)) = 1
    /\ variables = [k \in {variableNames(template)[1]} |-> <<"v">>]

\* C7: a variable layer without a variableName contributes its text as a
\* variable name.
C7_UnnamedVariableContributesText ==
    \A i \in LayerIds :
        (Layers[i].isVariable /\ Layers[i].variableName = <<>>) =>
            includes(variableNames(template), Layers[i].text)

\* the texts the raster path painted for the last download
Painted == download[1].href.texts

\* C8: a layer that is not a variable is rendered with its literal text, by
\* the raster path and by the preview, whatever the bindings.
C8_StaticLayerKeepsText ==
    \A i \in LayerIds :
        ~Layers[i].isVariable =>
            /\ renderPreview(template, variables)[i].text = Layers[i].text
            /\ download /= <<>> => Painted[i].text = Layers[i].text

\* a static layer whose text and variableName are both a bound key, painted
\* in the same image as the bound value
C8_Witness ==
    /\ download /= <<>>
    /\ \E i, j \in LayerIds :
          /\ ~Layers[i].isVariable
          /\ Layers[i].variableName = NameA
          /\ Layers[i].text = NameA
          /\ Layers[j].isVariable /\ Layers[j].variableName = NameA
          /\ Painted[j].text = <<"v">>
          /\ Painted[i].text = NameA
          /\ truthyAt(variables, NameA)

C10_BoundVariableShowsValue ==
    \A i \in LayerIds :
        (Layers[i].isVariable /\ truthyAt(variables, KeyOf(Layers[i]))) =>
            /\ renderPreview(template, variables)[i].text = variables[KeyOf(Layers[i])]

====
